---------------------------- MODULE Spec2Model ----------------------------
(***************************************************************************)
(* Model of the forex gap detector (src/main.py): one run cycle evaluates  *)
(* every (pair, timeframe) with check_gap, then update_outcomes sweeps the *)
(* logged rows once.                                                       *)
(*                                                                         *)
(* Representation                                                          *)
(*  - A quote text such as "1.25000" is the tuple <<125000>> holding the   *)
(*    number of 1e-5 units it spells; the empty text "" is <<>>.           *)
(*  - Python floats are IEEE-754 binary64 values.  A float is the record   *)
(*    [m |-> mantissa, e |-> exponent] standing for m * 2^e, with m an     *)
(*    arbitrary-precision natural (little-endian limbs, radix 2^15)   of    *)
(*    exactly 53 bits, or <<>> for zero.  Every arithmetic operation is    *)
(*    the exact result rounded to nearest, ties to even.                   *)
(*  - A "%.1f" text such as "20.0" is the integer number of tenths (200).  *)
(*  - A "%Y-%m-%d %H:%M:%S" text is the integer number of whole seconds.   *)
(*  - The clock counts half seconds, so that strftime drops something.     *)
(***************************************************************************)
EXTENDS Integers, Sequences, FiniteSets, TLC

(***************************************************************************)
(* Arbitrary-precision naturals: little-endian limbs, radix 2^15 = 32768,  *)
(* no leading zero limb; <<>> is zero.                                     *)
(***************************************************************************)
\* F(v) and F(v, w) with v and w evaluated once
Bind(v, F(_)) == CHOOSE r \in {F(x) : x \in {v}} : TRUE

Bind2(v, w, F(_, _)) == CHOOSE r \in {F(x, y) : x \in {v}, y \in {w}} : TRUE

RECURSIVE BigNorm(_)
BigNorm(a) ==
    IF a = <<>> THEN <<>>
    ELSE IF a[Len(a)] = 0 THEN BigNorm(SubSeq(a, 1, Len(a) - 1))
    ELSE a

RECURSIVE BigOf(_)
BigOf(n) == IF n = 0 THEN <<>> ELSE <<n % 32768>> \o BigOf(n \div 32768)

Limb(a, i) == IF i <= Len(a) THEN a[i] ELSE 0

MaxOf(x, y) == IF x >= y THEN x ELSE y

MinOf(x, y) == IF x <= y THEN x ELSE y

RECURSIVE BigAddC(_, _, _, _)
BigAddC(a, b, i, c) ==
    IF i > MaxOf(Len(a), Len(b))
    THEN (IF c = 0 THEN <<>> ELSE <<c>>)
    ELSE LET s == Limb(a, i) + Limb(b, i) + c
         IN  <<s % 32768>> \o BigAddC(a, b, i + 1, s \div 32768)

BigAdd(a, b) == BigAddC(a, b, 1, 0)

RECURSIVE BigSubB(_, _, _, _)
BigSubB(a, b, i, br) ==
    IF i > Len(a) THEN <<>>
    ELSE LET d == Limb(a, i) - Limb(b, i) - br
         IN  IF d < 0 THEN <<d + 32768>> \o BigSubB(a, b, i + 1, 1)
             ELSE <<d>> \o BigSubB(a, b, i + 1, 0)

\* a - b for a >= b
BigSub(a, b) == BigNorm(BigSubB(a, b, 1, 0))

RECURSIVE BigCmpAt(_, _, _)
BigCmpAt(a, b, i) ==
    IF i = 0 THEN 0
    ELSE IF a[i] < b[i] THEN -1
    ELSE IF a[i] > b[i] THEN 1
    ELSE BigCmpAt(a, b, i - 1)

\* -1, 0, 1 as a < b, a = b, a > b
BigCmp(a, b) ==
    IF Len(a) < Len(b) THEN -1
    ELSE IF Len(a) > Len(b) THEN 1
    ELSE BigCmpAt(a, b, Len(a))

RECURSIVE BigMulSmallC(_, _, _, _)
BigMulSmallC(a, k, i, c) ==
    IF i > Len(a)
    THEN BigOf(c)
    ELSE LET s == a[i] * k + c
         IN  <<s % 32768>> \o BigMulSmallC(a, k, i + 1, s \div 32768)

\* a * k for a machine integer 0 <= k < 65536
BigMulSmall(a, k) == BigNorm(BigMulSmallC(a, k, 1, 0))

RECURSIVE BigMulAt(_, _, _)
BigMulAt(a, b, i) ==
    IF i > Len(b) THEN <<>>
    ELSE BigAdd(BigMulSmall(a, b[i]), <<0>> \o BigMulAt(a, b, i + 1))

BigMul(a, b) == BigNorm(BigMulAt(a, b, 1))

\* a * 2^k
BigShl(a, k) ==
    IF a = <<>> THEN <<>>
    ELSE [i \in 1..(k \div 15) |-> 0] \o BigMulSmall(a, 2 ^ (k % 15))

RECURSIVE BitsOf(_)
BitsOf(n) == IF n = 0 THEN 0 ELSE 1 + BitsOf(n \div 2)

\* the number of bits of a
BigBits(a) == IF a = <<>> THEN 0 ELSE 15 * (Len(a) - 1) + BitsOf(a[Len(a)])

BigOdd(a) == a # <<>> /\ a[1] % 2 = 1

\* the largest t with t * Q <= P, for t < 2 * bit
RECURSIVE BigQuot(_, _, _, _)
BigQuot(P, Q, t, bit) ==
    IF bit = 0 THEN t
    ELSE IF BigCmp(BigMulSmall(Q, t + bit), P) <= 0
         THEN BigQuot(P, Q, t + bit, bit \div 2)
         ELSE BigQuot(P, Q, t, bit \div 2)

(***************************************************************************)
(* Python float (binary64): m * 2^e with 2^52 <= m < 2^53, or zero.        *)
(***************************************************************************)
FZero == [m |-> <<>>, e |-> 0]

\* <<P', Q', e>> with P/Q * 2^s = P'/Q' * 2^e and Q' <= P' < 2 Q'
FScale(P, Q, s) ==
    Bind(BigBits(P) - BigBits(Q), LAMBDA d :
    Bind2(IF d < 0 THEN BigShl(P, 0 - d) ELSE P,
          IF d > 0 THEN BigShl(Q, d) ELSE Q, LAMBDA P1, Q1 :
          IF BigCmp(P1, Q1) < 0
          THEN <<BigShl(P1, 1), Q1, s + d - 1>>
          ELSE <<P1, Q1, s + d>>))

\* 13 more quotient bits: st = <<m, R>> with R < Q
FDigits(st, Q) ==
    Bind(<<st[1], BigShl(st[2], 13)>>, LAMBDA s :
    Bind(BigQuot(s[2], Q, 0, 4096), LAMBDA t :
         <<BigAdd(BigShl(s[1], 13), BigOf(t)), BigSub(s[2], BigMulSmall(Q, t))>>))

\* the float with mantissa m, remainder R / Q and exponent e: ties to even
FNearest(m, R, Q, e) ==
    Bind(BigCmp(BigShl(R, 1), Q), LAMBDA c :
    Bind(IF c > 0 \/ (c = 0 /\ BigOdd(m)) THEN BigAdd(m, <<1>>) ELSE m, LAMBDA m1 :
         IF BigBits(m1) = 54
         THEN [m |-> BigShl(<<1>>, 52), e |-> e + 1]
         ELSE [m |-> m1, e |-> e]))

\* the float nearest to P/Q * 2^s, ties to even
FRound(P, Q, s) ==
    IF P = <<>> THEN FZero
    ELSE Bind(FScale(BigNorm(P), BigNorm(Q), s), LAMBDA sc :
         Bind(FDigits(<<<<1>>, BigSub(sc[1], sc[2])>>, sc[2]), LAMBDA d1 :
         Bind(FDigits(d1, sc[2]), LAMBDA d2 :
         Bind(FDigits(d2, sc[2]), LAMBDA d3 :
         Bind(FDigits(d3, sc[2]), LAMBDA d4 :
              FNearest(d4[1], d4[2], sc[2], sc[3] - 52))))))

\* float("<n * 10^-5>"): Python parses a decimal text to the nearest float
FloatOfQuote(n) == FRound(BigOf(n), BigOf(100000), 0)

\* float("<t tenths>"), the text "%.1f" wrote
FloatOfTenths(t) == FRound(BigOf(t), BigOf(10), 0)

\* float("<h hundredths>")
FloatOfHundredths(h) == FRound(BigOf(h), BigOf(100), 0)

\* an int used in float arithmetic or comparison
FloatOfInt(n) == FRound(BigOf(n), <<1>>, 0)

\* the mantissa of a rescaled to exponent e <= a.e
FAt(a, e) == BigShl(a.m, a.e - e)

\* -1, 0, 1 as x < y, x = y, x > y (x, y >= 0)
FCmp(x, y) ==
    Bind2(x, y, LAMBDA a, b :
        IF a.m = <<>> \/ b.m = <<>>
        THEN (IF a.m = b.m THEN 0 ELSE IF a.m = <<>> THEN -1 ELSE 1)
        ELSE BigCmp(FAt(a, MinOf(a.e, b.e)), FAt(b, MinOf(a.e, b.e))))

\* x - y for x >= y >= 0
FSub(x, y) ==
    Bind2(x, y, LAMBDA a, b :
        IF b.m = <<>> THEN a
        ELSE FRound(BigSub(FAt(a, MinOf(a.e, b.e)), FAt(b, MinOf(a.e, b.e))),
                    <<1>>, MinOf(a.e, b.e)))

\* x + y for x, y >= 0
FAdd(x, y) ==
    Bind2(x, y, LAMBDA a, b :
        IF b.m = <<>> THEN a
        ELSE IF a.m = <<>> THEN b
        ELSE FRound(BigAdd(FAt(a, MinOf(a.e, b.e)), FAt(b, MinOf(a.e, b.e))),
                    <<1>>, MinOf(a.e, b.e)))

\* abs(x - y)
FAbsDiff(x, y) ==
    Bind2(x, y, LAMBDA a, b : IF FCmp(a, b) >= 0 THEN FSub(a, b) ELSE FSub(b, a))

\* x * y
FMul(x, y) ==
    Bind2(x, y, LAMBDA a, b : FRound(BigMul(a.m, b.m), <<1>>, a.e + b.e))

\* x / y for y > 0
FDiv(x, y) ==
    Bind2(x, y, LAMBDA a, b : FRound(a.m, b.m, a.e - b.e))

\* the tenths nearest to P / Q, ties to even, given t = P \div Q
TenthsNearest(P, Q, t) ==
    Bind(BigCmp(BigShl(BigSub(P, BigMulSmall(Q, t)), 1), Q), LAMBDA c :
         IF c > 0 \/ (c = 0 /\ t % 2 = 1) THEN t + 1 ELSE t)

\* f"{a:.1f}" as a number of tenths: the exact value of a, rounded to the
\* nearest tenth, ties to even (0 <= a < 3276)
Format1(x) ==
    Bind(x, LAMBDA a :
        IF a.m = <<>> THEN 0
        ELSE Bind2(BigMulSmall(a.m, 10), BigShl(<<1>>, 0 - a.e), LAMBDA P, Q :
             Bind(BigQuot(P, Q, 0, 16384), LAMBDA t : TenthsNearest(P, Q, t))))

(***************************************************************************)
(* Configuration (src/main.py, lines 27-29).  A pair symbol is the         *)
(* sequence of its characters, so that `"JPY" in pair` and                 *)
(* `pair.replace("/", "")` are computed on the text.                       *)
(***************************************************************************)
GBPUSD == <<"G", "B", "P", "/", "U", "S", "D">>

EURUSD == <<"E", "U", "R", "/", "U", "S", "D">>

USDJPY == <<"U", "S", "D", "/", "J", "P", "Y">>

EURJPY == <<"E", "U", "R", "/", "J", "P", "Y">>

AUDJPY == <<"A", "U", "D", "/", "J", "P", "Y">>

PAIR_LIST == <<GBPUSD, EURUSD, USDJPY, EURJPY, AUDJPY>>

\* the keys of TF_MAP in iteration (insertion) order
TF_KEYS == <<"4h", "1day">>

TF_MAP == [tf \in {"4h", "1day"} |-> IF tf = "4h" THEN "240" ELSE "D"]

MIN_GAP_PIPS == 20

\* sub in s, for texts
Contains(sub, s) ==
    \E i \in 1..(Len(s) - Len(sub) + 1) : SubSeq(s, i, i + Len(sub) - 1) = sub

\* s.replace(ch, "")
RECURSIVE Remove(_, _)
Remove(ch, s) ==
    IF s = <<>> THEN <<>>
    ELSE IF Head(s) = ch THEN Remove(ch, Tail(s))
    ELSE <<Head(s)>> \o Remove(ch, Tail(s))

\* build_chart_url: the two parts the URL is formatted from
build_chart_url(pair, tf) ==
    [symbol   |-> Remove("/", pair),
     interval |-> IF tf \in DOMAIN TF_MAP THEN TF_MAP[tf] ELSE "240"]

(***************************************************************************)
(* The quotes the provider may return.  Each set holds two quotes exactly  *)
(* 20 pips apart whose float difference divided by the pip is below 20,    *)
(* two quotes exactly 20 pips apart for which it is not, and quotes just   *)
(* under 20 and near 40 pips apart.                                        *)
(***************************************************************************)
QuotesStd == {120044, 120243, 120244, 120443}

QuotesJpy == {14919000, 14938949, 14939000, 14958949}

Quotes(pair) == IF Contains(<<"J", "P", "Y">>, pair) THEN QuotesJpy ELSE QuotesStd

\* the RSI the provider may report, in hundredths ("70.01" is 7001)
RsiReadings == {0, 2999, 3000, 7000, 7001, 10000}

(***************************************************************************)
(* The float computations of check_gap and update_outcomes.                *)
(***************************************************************************)
\* float(text) of a quote text; the text <<>> raises ValueError
Parses(text) == Len(text) = 1

\* line 68: pip_value = 0.0001 if "JPY" not in pair else 0.01; the
\* literals in 1e-5 units, 10 and 1000
CheckGapPipValue(pair) ==
    IF ~Contains(<<"J", "P", "Y">>, pair) THEN 10 ELSE 1000

\* the resolution forgetting the Yen pairs
UpdatePipValueStd(pair) == 10

\* line 119: pip_value = 0.0001 if "JPY" not in pair else 0.01
UpdatePipValue(pair) ==
    IF ~Contains(<<"J", "P", "Y">>, pair) THEN 10 ELSE 1000

\* the function holding the <<argument, value>> pairs of P, written out
Tabulate(P) ==
    [x \in {p[1] : p \in P} |-> (CHOOSE p \in P : p[1] = x)[2]] @@ <<>>

\* float(text) of the quote texts and of the pip literals, tabulated
QuoteFloat ==
    Tabulate({<<q, FloatOfQuote(q)>> : q \in QuotesStd \cup QuotesJpy \cup {10, 1000}})

\* lines 66-69: gap_pips = abs(curr_open - prev_close) / pip_value
GapPips(pip_value, curr_open, prev_close) ==
    FDiv(FAbsDiff(QuoteFloat[curr_open], QuoteFloat[prev_close]), QuoteFloat[pip_value])

\* line 71: gap_pips < MIN_GAP_PIPS
BelowMinGap(gap_pips) == FCmp(gap_pips, FloatOfInt(MIN_GAP_PIPS)) < 0

\* the comparison of line 74 turned around
DirectionOfSwapped(curr_open, prev_close) ==
    IF FCmp(QuoteFloat[curr_open], QuoteFloat[prev_close]) < 0
    THEN "GAP UP" ELSE "GAP DOWN"

\* line 74: "GAP UP" if curr_open > prev_close else "GAP DOWN"
DirectionOf(curr_open, prev_close) ==
    IF FCmp(QuoteFloat[curr_open], QuoteFloat[prev_close]) > 0
    THEN "GAP UP" ELSE "GAP DOWN"

\* what check_gap computes from two parsable quotes, tabulated
GapFacts(pip_value, curr_open, prev_close) ==
    LET g == GapPips(pip_value, curr_open, prev_close)
    IN  [pip_value |-> pip_value,
         below     |-> BelowMinGap(g),
         text      |-> Format1(g),
         direction |-> DirectionOf(curr_open, prev_close)]

\* the pip value check_gap takes for a pair and the quotes the pair trades at
GapKey(pair) == <<CheckGapPipValue(pair), Quotes(pair)>>

GapRows ==
    LET Row(key) == Tabulate({<<oc, GapFacts(key[1], oc[1], oc[2])>> : oc \in key[2] \X key[2]})
    IN  Tabulate({<<key, Row(key)>> : key \in {GapKey(PAIR_LIST[i]) : i \in DOMAIN PAIR_LIST}})

GapTable ==
    Tabulate({<<PAIR_LIST[i], GapRows[GapKey(PAIR_LIST[i])]>> : i \in DOMAIN PAIR_LIST})

\* get_rsi returns a float or None: <<h>> is float("<h hundredths>"), <<>> is None
Truthy(rsi) == rsi # <<>> /\ FloatOfHundredths(rsi[1]).m # <<>>

\* no reading written down as "0.0"
RsiStrZero(rsi) == IF rsi # <<>> THEN <<Format1(FloatOfHundredths(rsi[1]))>> ELSE <<0>>

\* line 76: rsi_str = f"{rsi:.1f}" if rsi else "N/A"; the text "N/A" is <<>>
RsiStr(rsi) == IF Truthy(rsi) THEN <<Format1(FloatOfHundredths(rsi[1]))>> ELSE <<>>

\* lines 80-83
SuggestionOf(direction, rsi) ==
    IF direction = "GAP UP"
    THEN IF Truthy(rsi) /\ FCmp(FloatOfHundredths(rsi[1]), FloatOfInt(70)) > 0
         THEN "Overbought GAP UP. Consider SHORT."
         ELSE "GAP UP. Wait for structure."
    ELSE IF Truthy(rsi) /\ FCmp(FloatOfHundredths(rsi[1]), FloatOfInt(30)) < 0
         THEN "Oversold GAP DOWN. Consider LONG."
         ELSE "GAP DOWN. Wait for confirmation."

RsiResponses == {<<h>> : h \in RsiReadings} \cup {<<>>}

RsiFacts(rsi) ==
    [str  |-> RsiStr(rsi),
     up   |-> SuggestionOf("GAP UP", rsi),
     down |-> SuggestionOf("GAP DOWN", rsi)]

RsiTable == Tabulate({<<rsi, RsiFacts(rsi)>> : rsi \in RsiResponses})

(***************************************************************************)
(* Bounds of the model.                                                    *)
(***************************************************************************)
\* rows the sheet may hold: no further gap qualifies once it is full
MaxRows == 2

\* six-hour advances of the clock
MaxQuarterDays == 4

\* half-second advances of the clock
MaxHalfSeconds == 1

(***************************************************************************)
(* State.                                                                  *)
(***************************************************************************)
VARIABLES
    sheet,   \* the data rows of the sheet, below its header row
    now,     \* datetime.utcnow(), in half seconds
    pc,      \* "check", "fetch", "sweep", "done" or "crashed"
    pi,      \* run_bot: index of the pair being checked
    ti,      \* run_bot: index of the timeframe being checked
    rows,    \* update_outcomes: what get_all_records returned
    idx,     \* update_outcomes: sheet row number of the next entry
    cg,      \* the locals of the latest check_gap call
    uo,      \* the locals of the latest iteration of update_outcomes
    feed,    \* what the provider can answer in this behaviour
    run      \* the clock and the length of the sheet when run_bot was called

vars == <<sheet, now, pc, pi, ti, rows, idx, cg, uo, feed, run>>

NoCall == [kind |-> "none", pair |-> <<>>, tf |-> "", n |-> 0,
           curr_open |-> <<>>, prev_close |-> <<>>, pip_value |-> 0, rsi |-> <<>>,
           posts |-> <<>>, did |-> <<>>]

NoIter == [kind |-> "none", idx |-> 0, pip_value |-> 0,
           open_price |-> <<>>, curr_price |-> <<>>]

\* the date without the time of day: "%Y-%m-%d"
StrftimeDate(t) == ((t \div 2) \div 86400) * 86400

\* datetime.utcnow().strftime("%Y-%m-%d %H:%M:%S"): whole seconds.  The
\* text of a timestamp is modelled by the second it names, and a text
\* that names none by a negative number.
Strftime(t) == t \div 2

\* line 121: datetime.strptime(timestamp, "%Y-%m-%d %H:%M:%S") returns; it
\* raises ValueError for a text that names no second
StrptimeParses(timestamp) == timestamp >= 0

\* lines 152-155: the next (pair, tf) of the loops, or update_outcomes
NextUnit ==
    IF ti < Len(TF_KEYS)
    THEN pi' = pi /\ ti' = ti + 1 /\ pc' = "check"
    ELSE IF pi < Len(PAIR_LIST)
         THEN pi' = pi + 1 /\ ti' = 1 /\ pc' = "check"
         ELSE pi' = pi /\ ti' = ti /\ pc' = "fetch"

\* the locals of a check_gap call and what it did after get_candles: the
\* requests.post attempts of send_to_telegram, each delivered or not, and
\* the calls made, in their order
Call(kind, candles, pip_value, rsi, posts, did) ==
    [kind       |-> kind,
     pair       |-> PAIR_LIST[pi],
     tf         |-> TF_KEYS[ti],
     n          |-> Len(candles),
     curr_open  |-> IF Len(candles) >= 2 THEN candles[1].open ELSE <<>>,
     prev_close |-> IF Len(candles) >= 2 THEN candles[2].close ELSE <<>>,
     pip_value  |-> pip_value,
     rsi        |-> rsi,
     posts      |-> posts,
     did        |-> did]

\* lines 32-38: one requests.post; an exception it raises is caught and
\* printed, so that none leaves send_to_telegram
send_to_telegram(delivered) == [posts |-> <<delivered>>, raised |-> FALSE]

\* a message sent about the missing candles
CheckGapNoDataNotifies(candles) ==
    /\ pc = "check"
    /\ Len(candles) < 2
    /\ cg' = Call("nodata", candles, 0, <<>>, <<TRUE>>, <<"send_to_telegram">>)
    /\ NextUnit
    /\ UNCHANGED <<sheet, now, rows, idx, uo, feed, run>>

\* lines 62-64: fewer than 2 candles
CheckGapNoData(candles) ==
    /\ pc = "check"
    /\ Len(candles) < 2
    /\ cg' = Call("nodata", candles, 0, <<>>, <<>>, <<>>)
    /\ NextUnit
    /\ UNCHANGED <<sheet, now, rows, idx, uo, feed, run>>

\* lines 66-67: float() raises on a text that is no number; nothing
\* catches it and the process ends
CheckGapRaises(candles) ==
    /\ pc = "check"
    /\ Len(candles) >= 2
    /\ ~Parses(candles[1].open) \/ ~Parses(candles[2].close)
    /\ cg' = Call("raised", candles, 0, <<>>, <<>>, <<>>)
    /\ pc' = "crashed"
    /\ UNCHANGED <<sheet, now, pi, ti, rows, idx, uo, feed, run>>

\* lines 66-72: the gap is below MIN_GAP_PIPS
CheckGapSmall(candles) ==
    /\ pc = "check"
    /\ Len(candles) >= 2
    /\ Parses(candles[1].open) /\ Parses(candles[2].close)
    /\ \E g \in {GapTable[PAIR_LIST[pi]][<<candles[1].open[1], candles[2].close[1]>>]} :
          /\ g.below
          /\ cg' = Call("small", candles, g.pip_value, <<>>, <<>>, <<>>)
    /\ NextUnit
    /\ UNCHANGED <<sheet, now, rows, idx, uo, feed, run>>

\* lines 66-105: the gap qualifies; the RSI is fetched, the message is
\* sent and then the row is appended.  An exception leaving
\* send_to_telegram would end the process before line 101.
CheckGapEvent(candles, rsi, delivered) ==
    /\ pc = "check"
    /\ Len(candles) >= 2
    /\ Parses(candles[1].open) /\ Parses(candles[2].close)
    /\ \E g \in {GapTable[PAIR_LIST[pi]][<<candles[1].open[1], candles[2].close[1]>>]},
          r \in {RsiTable[rsi]},
          t \in {send_to_telegram(delivered)} :
          /\ ~g.below
          /\ IF t.raised
             THEN /\ sheet' = sheet
                  /\ cg' = Call("raised", candles, g.pip_value, rsi, t.posts,
                                <<"get_rsi", "send_to_telegram">>)
                  /\ pc' = "crashed"
                  /\ UNCHANGED <<pi, ti>>
             ELSE /\ sheet' = Append(sheet,
                        [Timestamp  |-> Strftime(now),
                         Pair       |-> PAIR_LIST[pi],
                         TF         |-> TF_KEYS[ti],
                         Gap        |-> g.text,
                         RSI        |-> r.str,
                         Direction  |-> g.direction,
                         Suggestion |-> IF g.direction = "GAP UP" THEN r.up ELSE r.down,
                         Outcome    |-> "Pending",
                         ChartURL   |-> build_chart_url(PAIR_LIST[pi], TF_KEYS[ti])])
                  /\ cg' = Call("event", candles, g.pip_value, rsi, t.posts,
                                <<"get_rsi", "send_to_telegram", "append_row">>)
                  /\ NextUnit
    /\ UNCHANGED <<now, rows, idx, uo, feed, run>>

(***************************************************************************)
(* update_outcomes.                                                        *)
(***************************************************************************)
\* one wait for every timeframe
WaitTimeSixHours(tf) == 6 * 3600

\* line 125: wait_time, in seconds
WaitTime(tf) == IF tf = "4h" THEN 6 * 3600 ELSE 24 * 3600

\* lines 121-126: age < wait_time, for the clock t and the Timestamp text
TooYoung(t, timestamp, tf) == t - 2 * timestamp < 2 * WaitTime(tf)

\* lines 137-148: the Outcome written for the latest candle
OutcomeOf(pip_value, gap, direction, open_price, curr_price) ==
    LET gap_pips == FloatOfTenths(gap)
        pip      == QuoteFloat[pip_value]
        o        == QuoteFloat[open_price]
        c        == QuoteFloat[curr_price]
    IN  IF direction = "GAP UP"
        THEN IF FCmp(c, FSub(o, FMul(gap_pips, pip))) <= 0
             THEN "Filled" ELSE "Not Filled"
        ELSE IF direction = "GAP DOWN"
        THEN IF FCmp(c, FAdd(o, FMul(gap_pips, pip))) >= 0
             THEN "Filled" ELSE "Not Filled"
        ELSE "Pending"

\* the Gap texts check_gap can write for a pair
GapTexts(pair) ==
    UNION {{g[oc].text : oc \in {x \in DOMAIN g : ~g[x].below}} : g \in {GapTable[pair]}}

\* the pip value update_outcomes takes for a pair, the Gap texts its rows
\* can hold and the quotes the pair trades at
OutcomeKey(pair) == <<UpdatePipValue(pair), GapTexts(pair), Quotes(pair)>>

OutcomeRows ==
    LET Row(key) == Tabulate({<<k, OutcomeOf(key[1], k[1], k[2], k[3], k[4])>> :
                                 k \in key[2] \X {"GAP UP", "GAP DOWN"} \X key[3] \X key[3]})
    IN  Tabulate({<<key, Row(key)>> : key \in {OutcomeKey(PAIR_LIST[i]) : i \in DOMAIN PAIR_LIST}})

OutcomeTable ==
    Tabulate({<<PAIR_LIST[i], OutcomeRows[OutcomeKey(PAIR_LIST[i])]>> : i \in DOMAIN PAIR_LIST})

\* line 109: rows = sheet.get_all_records()
UpdateOutcomesBegin ==
    /\ pc = "fetch"
    /\ rows' = sheet
    /\ idx' = 2
    /\ pc' = IF sheet = <<>> THEN "done" ELSE "sweep"
    /\ cg' = NoCall
    /\ UNCHANGED <<sheet, now, pi, ti, uo, feed, run>>

\* line 110: the loop goes on to the next entry, or ends
NextEntry ==
    /\ idx' = idx + 1
    /\ pc' = IF idx - 1 < Len(rows) THEN "sweep" ELSE "done"

\* the filter of line 111 left out
IsPendingAlways(entry) == TRUE

\* line 111: entry["Outcome"] != "Pending" is false
IsPending(entry) == entry.Outcome = "Pending"

\* the cell of column col, counted from 1 in the order in which append_row
\* fills the columns (lines 102-105), set to value in the row r
SetCell(r, col, value) ==
    CASE col = 1 -> [r EXCEPT !.Timestamp = value]
      [] col = 2 -> [r EXCEPT !.Pair = value]
      [] col = 3 -> [r EXCEPT !.TF = value]
      [] col = 4 -> [r EXCEPT !.Gap = value]
      [] col = 5 -> [r EXCEPT !.RSI = value]
      [] col = 6 -> [r EXCEPT !.Direction = value]
      [] col = 7 -> [r EXCEPT !.Suggestion = value]
      [] col = 8 -> [r EXCEPT !.Outcome = value]
      [] col = 9 -> [r EXCEPT !.ChartURL = value]

\* the header row forgotten: sheet row r taken for the data row r
UpdateCellDataRow(sh, row, col, value) ==
    IF row \in DOMAIN sh THEN [sh EXCEPT ![row] = SetCell(@, col, value)] ELSE sh

\* the column before the one asked for
UpdateCellColumnBefore(sh, row, col, value) ==
    IF row - 1 \in DOMAIN sh
    THEN [sh EXCEPT ![row - 1] = SetCell(@, col - 1, value)] ELSE sh

\* sheet.update_cell(row, col, value): sheet row 1 is the header and sheet
\* row r the data row r - 1
UpdateCell(sh, row, col, value) ==
    IF row - 1 \in DOMAIN sh
    THEN [sh EXCEPT ![row - 1] = SetCell(@, col, value)] ELSE sh

PipTable ==
    Tabulate({<<PAIR_LIST[i], UpdatePipValue(PAIR_LIST[i])>> : i \in DOMAIN PAIR_LIST})

Iter(kind, candles) ==
    [kind       |-> kind,
     idx        |-> idx,
     pip_value  |-> IF kind = "resolved" THEN 0 ELSE PipTable[rows[idx - 1].Pair],
     open_price |-> IF Len(candles) >= 1 THEN candles[1].open ELSE <<>>,
     curr_price |-> IF Len(candles) >= 1 THEN candles[1].close ELSE <<>>]

\* lines 111-112
SweepSkipResolved ==
    /\ pc = "sweep"
    /\ ~IsPending(rows[idx - 1])
    /\ uo' = Iter("resolved", <<>>)
    /\ NextEntry
    /\ UNCHANGED <<sheet, now, pi, ti, rows, cg, feed, run>>

\* lines 121-127
SweepSkipYoung ==
    /\ pc = "sweep"
    /\ IsPending(rows[idx - 1])
    /\ StrptimeParses(rows[idx - 1].Timestamp)
    /\ TooYoung(now, rows[idx - 1].Timestamp, rows[idx - 1].TF)
    /\ uo' = Iter("young", <<>>)
    /\ NextEntry
    /\ UNCHANGED <<sheet, now, pi, ti, rows, cg, feed, run>>

\* a missing candle taken for a gap that did not fill
SweepNoCandleNotFilled(candles) ==
    /\ pc = "sweep"
    /\ IsPending(rows[idx - 1])
    /\ StrptimeParses(rows[idx - 1].Timestamp)
    /\ ~TooYoung(now, rows[idx - 1].Timestamp, rows[idx - 1].TF)
    /\ Len(candles) < 1
    /\ sheet' = UpdateCell(sheet, idx, 8, "Not Filled")
    /\ uo' = Iter("nodata", candles)
    /\ NextEntry
    /\ UNCHANGED <<now, pi, ti, rows, cg, feed, run>>

\* lines 130-132
SweepNoCandle(candles) ==
    /\ pc = "sweep"
    /\ IsPending(rows[idx - 1])
    /\ StrptimeParses(rows[idx - 1].Timestamp)
    /\ ~TooYoung(now, rows[idx - 1].Timestamp, rows[idx - 1].TF)
    /\ Len(candles) < 1
    /\ uo' = Iter("nodata", candles)
    /\ NextEntry
    /\ UNCHANGED <<sheet, now, pi, ti, rows, cg, feed, run>>

\* line 121: strptime raises, before any fetch; or lines 134-135: float()
\* raises.  Nothing catches either and the process ends.
SweepRaises(candles) ==
    /\ pc = "sweep"
    /\ IsPending(rows[idx - 1])
    /\ IF ~StrptimeParses(rows[idx - 1].Timestamp)
       THEN uo' = Iter("raised", <<>>)
       ELSE /\ ~TooYoung(now, rows[idx - 1].Timestamp, rows[idx - 1].TF)
            /\ Len(candles) >= 1
            /\ ~Parses(candles[1].open) \/ ~Parses(candles[1].close)
            /\ uo' = Iter("raised", candles)
    /\ pc' = "crashed"
    /\ UNCHANGED <<sheet, now, pi, ti, rows, idx, cg, feed, run>>

\* only a filled gap written down
SweepResolveFilledOnly(candles) ==
    /\ pc = "sweep"
    /\ IsPending(rows[idx - 1])
    /\ StrptimeParses(rows[idx - 1].Timestamp)
    /\ ~TooYoung(now, rows[idx - 1].Timestamp, rows[idx - 1].TF)
    /\ Len(candles) >= 1
    /\ Parses(candles[1].open) /\ Parses(candles[1].close)
    /\ \E entry \in {rows[idx - 1]} :
          \E out \in {OutcomeTable[entry.Pair][<<entry.Gap, entry.Direction,
                                                 candles[1].open[1], candles[1].close[1]>>]} :
             sheet' = IF out = "Filled" THEN UpdateCell(sheet, idx, 8, out) ELSE sheet
    /\ uo' = Iter("written", candles)
    /\ NextEntry
    /\ UNCHANGED <<now, pi, ti, rows, cg, feed, run>>

\* lines 134-148: sheet.update_cell(idx, 8, ...) writes column 8, the
\* Outcome, of sheet row idx, the data row idx - 1
SweepResolve(candles) ==
    /\ pc = "sweep"
    /\ IsPending(rows[idx - 1])
    /\ StrptimeParses(rows[idx - 1].Timestamp)
    /\ ~TooYoung(now, rows[idx - 1].Timestamp, rows[idx - 1].TF)
    /\ Len(candles) >= 1
    /\ Parses(candles[1].open) /\ Parses(candles[1].close)
    /\ \E entry \in {rows[idx - 1]} :
          \E out \in {OutcomeTable[entry.Pair][<<entry.Gap, entry.Direction,
                                                 candles[1].open[1], candles[1].close[1]>>]} :
             sheet' = IF out = "Pending" THEN sheet ELSE UpdateCell(sheet, idx, 8, out)
    /\ uo' = Iter("written", candles)
    /\ NextEntry
    /\ UNCHANGED <<now, pi, ti, rows, cg, feed, run>>

(***************************************************************************)
(* The environment: the scheduler, the clock and the provider.             *)
(***************************************************************************)
\* the scheduler starts the script again: line 157
RunBot ==
    /\ pc \in {"done", "crashed"}
    /\ pc' = "check"
    /\ pi' = 1
    /\ ti' = 1
    /\ rows' = <<>>
    /\ idx' = 2
    /\ cg' = NoCall
    /\ uo' = NoIter
    /\ run' = [at |-> now, len |-> Len(sheet)]
    /\ UNCHANGED <<sheet, now, feed>>

\* time passes: half a second, or six hours
TickHalfSecond ==
    /\ now % (2 * 6 * 3600) < MaxHalfSeconds
    /\ now' = now + 1
    /\ UNCHANGED <<sheet, pc, pi, ti, rows, idx, cg, uo, feed, run>>

TickSixHours ==
    /\ now \div (2 * 6 * 3600) < feed.quarters
    /\ now' = now + 2 * 6 * 3600
    /\ UNCHANGED <<sheet, pc, pi, ti, rows, idx, cg, uo, feed, run>>

\* time passes up to the next full six hours
TickToSixHours ==
    /\ now % (2 * 6 * 3600) # 0
    /\ now \div (2 * 6 * 3600) < feed.quarters
    /\ now' = (now \div (2 * 6 * 3600) + 1) * (2 * 6 * 3600)
    /\ UNCHANGED <<sheet, pc, pi, ti, rows, idx, cg, uo, feed, run>>

Candle(o, c) == [open |-> o, close |-> c]

Units == (DOMAIN PAIR_LIST) \X (DOMAIN TF_KEYS)

\* The provider's answers are bounded per behaviour by a feed: the units
\* whose candles can show a gap, the quotes and RSI readings in use, the
\* rows logged before no further gap shows, and the six-hour advances of
\* the clock.
FeedDetection ==
    [hot |-> Units, std |-> QuotesStd, jpy |-> QuotesJpy,
     rsis |-> {<<>>, <<7001>>}, posts |-> BOOLEAN,
     cap |-> MaxRows \div 2, quarters |-> 0,
     stored |-> <<>>]

FeedRsi ==
    [hot |-> {<<1, 1>>}, std |-> {120044, 120244}, jpy |-> {},
     rsis |-> RsiResponses, posts |-> {TRUE},
     cap |-> MaxRows \div 2, quarters |-> 0,
     stored |-> <<>>]

FeedResolution ==
    [hot |-> (DOMAIN PAIR_LIST) \X {1}, std |-> QuotesStd, jpy |-> QuotesJpy,
     rsis |-> {<<>>}, posts |-> {TRUE},
     cap |-> MaxRows \div 2, quarters |-> MaxQuarterDays - 3,
     stored |-> <<>>]

FeedWaiting ==
    [hot |-> {<<1, 1>>, <<3, 2>>}, std |-> {120044, 120244},
     jpy |-> {14938949, 14958949},
     rsis |-> {<<>>}, posts |-> {TRUE},
     cap |-> MaxRows \div 2, quarters |-> MaxQuarterDays,
     stored |-> <<>>]

FeedRows ==
    [hot |-> {<<1, 1>>}, std |-> {120044, 120244}, jpy |-> {},
     rsis |-> {<<>>}, posts |-> {TRUE},
     cap |-> MaxRows, quarters |-> MaxQuarterDays - 3,
     stored |-> <<>>]

\* a row the sheet holds when the script is started (line 20), as check_gap
\* writes one for "GBP/USD" and "4h", with the Timestamp and the Outcome
\* somebody has put into it
StoredRow(timestamp, outcome) ==
    [Timestamp  |-> timestamp,
     Pair       |-> GBPUSD,
     TF         |-> "4h",
     Gap        |-> GapTable[GBPUSD][<<120244, 120044>>].text,
     RSI        |-> <<>>,
     Direction  |-> "GAP UP",
     Suggestion |-> "GAP UP. Wait for structure.",
     Outcome    |-> outcome,
     ChartURL   |-> build_chart_url(GBPUSD, "4h")]

\* the sheet opened holds a row with an Outcome the script never writes,
\* above a row of its own
FeedStoredOutcome ==
    [hot |-> {}, std |-> {120044, 120244}, jpy |-> {},
     rsis |-> {<<>>}, posts |-> {TRUE},
     cap |-> MaxRows \div 2, quarters |-> MaxQuarterDays - 3,
     stored |-> <<StoredRow(0, "Cancelled"), StoredRow(0, "Pending")>>]

\* the sheet opened holds a Pending row whose Timestamp is no timestamp,
\* above a row of its own
FeedStoredTimestamp ==
    [hot |-> {}, std |-> {120044, 120244}, jpy |-> {},
     rsis |-> {<<>>}, posts |-> {TRUE},
     cap |-> MaxRows \div 2, quarters |-> MaxQuarterDays - 3,
     stored |-> <<StoredRow(-1, "Pending"), StoredRow(0, "Pending")>>]

Feeds ==
    {FeedDetection, FeedRsi, FeedResolution, FeedWaiting, FeedRows,
     FeedStoredOutcome, FeedStoredTimestamp}

FeedQuotes(pair) == Quotes(pair) \cap (feed.std \cup feed.jpy)

\* get_candles(pair, tf): at most 2 candles, newest first; a text of a
\* candle may be no number
CandlePairs ==
    IF <<pi, ti>> \notin feed.hot THEN {<<>>}
    ELSE LET Q == {<<q>> : q \in FeedQuotes(PAIR_LIST[pi])}
         IN  {<<>>, <<Candle(<<>>, <<>>)>>}
             \cup {<<Candle(o, o), Candle(c, c)>> : o \in Q, c \in Q}
             \cup {<<Candle(<<>>, <<>>), Candle(c, c)>> : c \in Q}
             \cup {<<Candle(o, o), Candle(<<>>, <<>>)>> : o \in Q}

\* get_candles(pair, tf, 1): at most 1 candle
LatestCandle(pair) ==
    LET Q == {<<q>> : q \in FeedQuotes(pair)}
    IN  {<<>>, <<Candle(<<>>, <<>>)>>} \cup {<<Candle(o, c)>> : o \in Q, c \in Q}

Init ==
    /\ feed \in Feeds
    /\ sheet = feed.stored
    /\ now = 0
    /\ pc = "check"
    /\ pi = 1
    /\ ti = 1
    /\ rows = <<>>
    /\ idx = 2
    /\ cg = NoCall
    /\ uo = NoIter
    /\ run = [at |-> 0, len |-> Len(sheet)]

Next ==
    \/ \E candles \in CandlePairs : CheckGapNoData(candles)
    \/ \E candles \in CandlePairs : CheckGapRaises(candles)
    \/ \E candles \in CandlePairs : CheckGapSmall(candles)
    \/ \E candles \in CandlePairs, rsi \in feed.rsis, delivered \in feed.posts :
          Len(sheet) < feed.cap /\ CheckGapEvent(candles, rsi, delivered)
    \/ UpdateOutcomesBegin
    \/ SweepSkipResolved
    \/ SweepSkipYoung
    \/ pc = "sweep" /\ \E candles \in LatestCandle(rows[idx - 1].Pair) : SweepNoCandle(candles)
    \/ pc = "sweep" /\ \E candles \in LatestCandle(rows[idx - 1].Pair) : SweepRaises(candles)
    \/ pc = "sweep" /\ \E candles \in LatestCandle(rows[idx - 1].Pair) : SweepResolve(candles)
    \/ RunBot
    \/ TickHalfSecond
    \/ TickSixHours
    \/ TickToSixHours

Spec == Init /\ [][Next]_vars

(***************************************************************************)
(* The run under the assumptions of progress: the scheduler keeps starting *)
(* the script, the clock advances, the script goes on from one step to the *)
(* next, and a fetch that is repeated again and again is answered with     *)
(* well-formed candles at some time.                                       *)
(***************************************************************************)
\* check_gap for the unit u returns without raising
CheckStep(u) ==
    /\ pi = u[1]
    /\ ti = u[2]
    /\ \E candles \in CandlePairs :
          \/ CheckGapNoData(candles)
          \/ CheckGapSmall(candles)
          \/ \E rsi \in feed.rsis, delivered \in feed.posts :
                Len(sheet) < feed.cap /\ CheckGapEvent(candles, rsi, delivered)

\* the sweep gets a well-formed candle for the data row k
ResolveRow(k) ==
    /\ pc = "sweep"
    /\ idx = k + 1
    /\ \E candles \in LatestCandle(rows[idx - 1].Pair) : SweepResolve(candles)

\* the units whose fetches may come back malformed while events wait
HotWaiting == FeedWaiting.hot \cup FeedRows.hot

Fairness ==
    /\ WF_vars(RunBot)
    /\ WF_vars(TickSixHours)
    /\ WF_vars(UpdateOutcomesBegin)
    /\ WF_vars(SweepSkipResolved \/ SweepSkipYoung)
    /\ \A u \in Units \ HotWaiting : WF_vars(CheckStep(u))
    /\ \A u \in HotWaiting : SF_vars(CheckStep(u))
    /\ \A k \in 1..MaxRows : SF_vars(ResolveRow(k))

\* the behaviours in which events wait and the clock runs on
InitWaiting == Init /\ feed \in {FeedWaiting, FeedRows}

FairSpec == InitWaiting /\ [][Next]_vars /\ Fairness

(***************************************************************************)
(* The properties.  Prices are compared as the decimals the texts denote,  *)
(* in units of 1e-5; gaps in tenths of a pip.                              *)
(***************************************************************************)
Abs(x) == IF x < 0 THEN -x ELSE x

\* the currency after the "/" of a pair symbol
QuoteCurrency(pair) ==
    LET i == CHOOSE j \in DOMAIN pair : pair[j] = "/"
    IN  SubSeq(pair, i + 1, Len(pair))

\* the pip size of a pair, in units of 1e-5: 0.01 for a Yen quote, else 0.0001
PipSize(pair) == IF QuoteCurrency(pair) = <<"J", "P", "Y">> THEN 1000 ELSE 10

Resolved == {"Filled", "Not Filled"}

\* the row the latest check_gap call appended
NewRow == sheet[Len(sheet)]

\* the row the latest iteration of the sweep looked at, as scanned
ScannedRow == rows[uo.idx - 1]

\* a step of the sweep: an iteration of its loop
SweepStep == pc = "sweep" /\ uo' # uo

\* C1: the Outcome of a stored event changes only from Pending to Filled or
\* to Not Filled; a Filled or Not Filled Outcome never changes again, and
\* no event leaves the sheet.
OutcomeChangesOnce ==
    [][\A k \in DOMAIN sheet :
          /\ k \in DOMAIN sheet'
          /\ sheet'[k].Outcome # sheet[k].Outcome
                => sheet[k].Outcome = "Pending" /\ sheet'[k].Outcome \in Resolved]_vars

\* a later sweep came across an event resolved before and passed it by
ResolvedRowSeenAgain ==
    /\ uo.kind = "resolved"
    /\ sheet[uo.idx - 1].Outcome \in Resolved

\* C2: check_gap appends an event exactly when 2 candles came back and
\* |curr.open - prev.close| / pip size is at least MIN_GAP_PIPS, exactly
\* MIN_GAP_PIPS included; every stored gap is at least MIN_GAP_PIPS.
EventIffGapAtLeastMin ==
    /\ cg.kind \in {"nodata", "small", "event"}
          => (cg.kind = "event"
                <=> /\ cg.n >= 2
                    /\ Abs(cg.curr_open[1] - cg.prev_close[1])
                          >= MIN_GAP_PIPS * PipSize(cg.pair))
    /\ \A k \in DOMAIN sheet : sheet[k].Gap >= 10 * MIN_GAP_PIPS

\* C3: a resolved GAP UP event is Filled iff close <= open - gap * pip size,
\* a resolved GAP DOWN event iff close >= open + gap * pip size, equality
\* included, and Not Filled otherwise.
FilledIffCloseReachesFill ==
    uo.kind = "written"
       => LET e == ScannedRow
              o == 10 * uo.open_price[1]
              c == 10 * uo.curr_price[1]
              d == e.Gap * PipSize(e.Pair)
              reached == IF e.Direction = "GAP UP" THEN c <= o - d ELSE c >= o + d
          IN  sheet[uo.idx - 1].Outcome = IF reached THEN "Filled" ELSE "Not Filled"

\* the wait threshold of a timeframe, in hours
ThresholdHours(tf) == IF tf = "4h" THEN 6 ELSE 24

\* the age of an event at the clock t is below its wait threshold
BelowThreshold(t, e) == t - 2 * e.Timestamp < 2 * 3600 * ThresholdHours(e.TF)

\* C4: a Pending event whose age is below its threshold, 6 hours for "4h"
\* and 24 hours otherwise, stays Pending; the sweep passes a Pending event
\* by for its age only below the threshold, so not at exactly the threshold.
YoungStaysPending ==
    [][/\ \A k \in DOMAIN sheet :
             sheet[k].Outcome = "Pending" /\ BelowThreshold(now, sheet[k])
                => sheet'[k].Outcome = "Pending"
       /\ SweepStep /\ uo'.kind = "young" => BelowThreshold(now, rows[idx - 1])]_vars

\* a "1day" event passed by at an age of 6 hours or more
DayEventWaitsLonger ==
    /\ uo.kind = "young"
    /\ ScannedRow.TF = "1day"
    /\ now - 2 * ScannedRow.Timestamp >= 2 * 6 * 3600

\* an event resolved at exactly its threshold
ResolvedAtThreshold ==
    /\ uo.kind = "written"
    /\ now - 2 * ScannedRow.Timestamp = 2 * 3600 * ThresholdHours(ScannedRow.TF)

\* C5: only a sweep changes an Outcome, and only of the row it is at, which
\* was Pending when scanned; check_gap leaves the sheet alone or appends one
\* row to it.
OnlyPendingRowsWritten ==
    [][/\ \A k \in DOMAIN sheet :
             k \in DOMAIN sheet' /\ sheet'[k].Outcome # sheet[k].Outcome
                => pc = "sweep" /\ k = idx - 1 /\ rows[k].Outcome = "Pending"
       /\ pc = "check"
             => \/ sheet' = sheet
                \/ Len(sheet') = Len(sheet) + 1 /\ SubSeq(sheet', 1, Len(sheet)) = sheet
       /\ pc # "check" => Len(sheet') = Len(sheet)]_vars

\* check_gap appended an event below one resolved before
AppendedBelowResolved ==
    /\ cg.kind = "event"
    /\ Len(sheet) >= 2
    /\ sheet[1].Outcome \in Resolved

\* C6: when the fetch for an age-eligible Pending event returns no candle,
\* the sheet is not written, the sweep goes on to the next row, every sweep
\* scans the whole sheet afresh, and a Pending event old enough is never
\* passed by.
NoCandleStaysPending ==
    [][/\ SweepStep /\ uo'.kind = "nodata"
             => /\ sheet' = sheet
                /\ sheet[idx - 1].Outcome = "Pending"
                /\ rows' = rows
                /\ idx' = idx + 1
                /\ pc' = IF idx - 1 < Len(rows) THEN "sweep" ELSE "done"
       /\ pc = "fetch" /\ pc' # "fetch" => rows' = sheet /\ idx' = 2
       /\ SweepStep /\ rows[idx - 1].Outcome = "Pending" /\ ~BelowThreshold(now, rows[idx - 1])
             => uo'.kind \in {"nodata", "raised", "written"}]_vars

\* no candle came for the first of two rows and the sweep is at the second
NoCandleThenNextRow ==
    /\ uo.kind = "nodata"
    /\ uo.idx = 2
    /\ pc = "sweep"
    /\ idx = 3
    /\ sheet[1].Outcome = "Pending"

\* the clock of the behaviour gets as far as the threshold of the event e
ClockReaches(e) ==
    LET threshold == 3600 * ThresholdHours(e.TF)
    IN  e.Timestamp + threshold <= 6 * 3600 * feed.quarters

\* C7: every event check_gap created, whose threshold the clock reaches,
\* is resolved at some time, when the script keeps being run and its
\* fetches are answered with well-formed candles at some time.
EventuallyResolved ==
    \A k \in 1..MaxRows :
        (k \in DOMAIN sheet /\ ClockReaches(sheet[k]))
            ~> (k \in DOMAIN sheet /\ sheet[k].Outcome \in Resolved)

\* a "1day" event resolved after its 24 hours
DayEventResolved ==
    \E k \in DOMAIN sheet :
        /\ sheet[k].TF = "1day"
        /\ sheet[k].Outcome \in Resolved
        /\ ClockReaches(sheet[k])

\* the suggestion the RSI reading rsi, <<h>> in hundredths or <<>> when
\* unavailable, calls for
ClaimedSuggestion(direction, rsi) ==
    IF direction = "GAP UP"
    THEN IF rsi # <<>> /\ rsi[1] > 7000
         THEN "Overbought GAP UP. Consider SHORT."
         ELSE "GAP UP. Wait for structure."
    ELSE IF rsi # <<>> /\ rsi[1] < 3000
         THEN "Oversold GAP DOWN. Consider LONG."
         ELSE "GAP DOWN. Wait for confirmation."

\* C8: for each direction and each RSI reading from 0 to 100 or none, the
\* stored suggestion is Overbought for GAP UP above 70, Oversold for GAP
\* DOWN below 30, and the waiting suggestion of the direction otherwise.
SuggestionFollowsRsi ==
    cg.kind = "event" => NewRow.Suggestion = ClaimedSuggestion(NewRow.Direction, cg.rsi)

\* C9: an event is GAP UP iff curr.open > prev.close and GAP DOWN iff
\* curr.open < prev.close; no event comes from curr.open = prev.close.
DirectionFollowsSign ==
    cg.kind = "event"
       => /\ NewRow.Direction = "GAP UP" <=> cg.curr_open[1] > cg.prev_close[1]
          /\ NewRow.Direction = "GAP DOWN" <=> cg.curr_open[1] < cg.prev_close[1]

\* an event from an open below the previous close
GapDownLogged ==
    /\ cg.kind = "event"
    /\ cg.curr_open[1] < cg.prev_close[1]
    /\ NewRow.Direction = "GAP DOWN"

\* C10: check_gap and update_outcomes both take 0.01 for the pip of a pair
\* quoted in Yen and 0.0001 for the pip of any other pair.
SamePipSize ==
    /\ cg.kind \in {"small", "event"} => cg.pip_value = PipSize(cg.pair)
    /\ uo.kind \in {"young", "nodata", "raised", "written"}
          => uo.pip_value = PipSize(ScannedRow.Pair)

\* a Yen event detected and later resolved
YenEventResolved ==
    /\ uo.kind = "written"
    /\ QuoteCurrency(ScannedRow.Pair) = <<"J", "P", "Y">>
    /\ sheet[uo.idx - 1].Outcome \in Resolved

\* the call c made the external call named
Did(c, name) == \E i \in DOMAIN c.did : c.did[i] = name

\* a call of check_gap returns or raises
CheckGapStep == pc = "check" /\ cg' # cg

\* the suggestion of a direction that is neither Overbought nor Oversold
WaitingSuggestion(direction) ==
    IF direction = "GAP UP" THEN "GAP UP. Wait for structure."
    ELSE "GAP DOWN. Wait for confirmation."

\* C11: when check_gap fetched the RSI, which it does for a gap it found
\* to qualify, and the RSI is unavailable, it appends the event all the
\* same, with Outcome Pending, "N/A" for the RSI and the waiting suggestion
\* of the event's direction.
RsiUnavailableStillLogged ==
    [][CheckGapStep /\ Did(cg', "get_rsi") /\ cg'.rsi = <<>>
          => /\ Len(sheet') = Len(sheet) + 1
             /\ SubSeq(sheet', 1, Len(sheet)) = sheet
             /\ sheet'[Len(sheet')].Outcome = "Pending"
             /\ sheet'[Len(sheet')].RSI = <<>>
             /\ sheet'[Len(sheet')].Suggestion
                   = WaitingSuggestion(sheet'[Len(sheet')].Direction)]_vars

\* a GAP DOWN event logged without an RSI
GapDownWithoutRsi ==
    /\ cg.kind = "event"
    /\ cg.rsi = <<>>
    /\ NewRow.Direction = "GAP DOWN"
    /\ NewRow.RSI = <<>>
    /\ NewRow.Outcome = "Pending"

\* C12: when fewer than 2 candles come back, none included, check_gap
\* makes no event: it sends no message, makes no other call, and leaves
\* the sheet as it is.
FewCandlesNoEvent ==
    [][CheckGapStep /\ cg'.n < 2
          => /\ sheet' = sheet
             /\ cg'.posts = <<>>
             /\ cg'.did = <<>>
             /\ cg'.kind = "nodata"]_vars

\* one candle came back for a unit after an event had been logged
OneCandleAfterEvent ==
    /\ cg.kind = "nodata"
    /\ cg.n = 1
    /\ cg.posts = <<>>
    /\ sheet # <<>>

\* where run_bot is after the unit <<p, t>>: at the next timeframe, at the
\* next pair, or at the sweep
AfterUnit(p, t) ==
    IF t < Len(TF_KEYS) THEN <<"check", p, t + 1>>
    ELSE IF p < Len(PAIR_LIST) THEN <<"check", p + 1, 1>>
    ELSE <<"fetch", p, t>>

\* the candles the call c got are too few, or one of the two texts it
\* reads is no number
NoUsableCandles(c) ==
    c.n < 2 \/ ~Parses(c.curr_open) \/ ~Parses(c.prev_close)

\* C13: an empty or malformed answer of the provider for one unit counts
\* as no data for that unit: the sheet stays as it is, the run does not
\* end with an error and goes on to the next unit or, after the last one,
\* to the sweep.
MalformedDegradesToNoData ==
    [][CheckGapStep /\ NoUsableCandles(cg')
          => /\ sheet' = sheet
             /\ pc' # "crashed"
             /\ <<pc', pi', ti'>> = AfterUnit(pi, ti)]_vars

\* the call c got 2 candles whose open and previous close are numbers at
\* least MIN_GAP_PIPS pips apart
QualifiesByPips(c) ==
    /\ c.n >= 2
    /\ Parses(c.curr_open)
    /\ Parses(c.prev_close)
    /\ Abs(c.curr_open[1] - c.prev_close[1]) >= MIN_GAP_PIPS * PipSize(c.pair)

\* the call c sent one message, delivered or not, and appended after it
OnePostThenAppend(c) ==
    /\ Len(c.posts) = 1
    /\ \E i, j \in DOMAIN c.did :
          /\ i < j
          /\ c.did[i] = "send_to_telegram"
          /\ c.did[j] = "append_row"
          /\ \A k \in DOMAIN c.did \ {i, j} :
                c.did[k] \notin {"send_to_telegram", "append_row"}

\* C14: for each gap of at least MIN_GAP_PIPS pips check_gap makes one
\* attempt to notify, before the append; whether it is delivered or not,
\* the row is appended with Outcome Pending and the run goes on.
NotifiedOnceThenLogged ==
    [][CheckGapStep /\ QualifiesByPips(cg')
          => /\ OnePostThenAppend(cg')
             /\ Len(sheet') = Len(sheet) + 1
             /\ SubSeq(sheet', 1, Len(sheet)) = sheet
             /\ sheet'[Len(sheet')].Outcome = "Pending"
             /\ <<pc', pi', ti'>> = AfterUnit(pi, ti)]_vars

\* the same of the calls that passed the gap test of line 71
NotifiedOnceWhenPassed ==
    [][CheckGapStep /\ cg'.kind \notin {"nodata", "raised", "small"}
          => /\ OnePostThenAppend(cg')
             /\ Len(sheet') = Len(sheet) + 1
             /\ SubSeq(sheet', 1, Len(sheet)) = sheet
             /\ sheet'[Len(sheet')].Outcome = "Pending"
             /\ <<pc', pi', ti'>> = AfterUnit(pi, ti)]_vars

\* an event logged although its message was not delivered
LoggedUndelivered ==
    /\ cg.kind = "event"
    /\ cg.posts = <<FALSE>>
    /\ NewRow.Outcome = "Pending"

\* run_bot is over
Ended == pc \in {"done", "crashed"}

\* a step in the order of a run: the units one after the other from the
\* first, each evaluated by one call; the sweep after the last unit, from
\* a fresh scan, one row after the other; and the end after the last row
InOrder ==
    /\ Ended /\ ~Ended' => <<pc', pi', ti'>> = <<"check", 1, 1>>
    /\ CheckGapStep
          => /\ cg'.pair = PAIR_LIST[pi]
             /\ cg'.tf = TF_KEYS[ti]
             /\ <<pc', pi', ti'>> = AfterUnit(pi, ti)
    /\ pc = "check" /\ pc' # "check"
          => /\ CheckGapStep
             /\ <<pi, ti>> = <<Len(PAIR_LIST), Len(TF_KEYS)>>
             /\ pc' = "fetch"
    /\ pc = "fetch" /\ pc' # "fetch"
          => /\ rows' = sheet
             /\ idx' = 2
             /\ pc' = IF rows' = <<>> THEN "done" ELSE "sweep"
    /\ pc = "sweep" /\ <<pc', idx'>> # <<pc, idx>>
          => /\ SweepStep
             /\ uo'.idx = idx
             /\ idx' = idx + 1
             /\ rows' = rows
             /\ pc' = IF idx - 1 < Len(rows) THEN "sweep" ELSE "done"

\* C15: in every run each unit is evaluated once, one unit at a time; the
\* sweep starts after all of them, runs once before the run ends, and
\* visits each stored row at most once.
SequentialCycle == [][InOrder]_vars

\* C16: the sheet only grows, no row of it is removed or moved, every
\* field of a stored row but its Outcome keeps the value written, and an
\* Outcome is written only by the sweep, into the row it evaluated, the
\* data row idx - 1 of sheet row idx, and into no other row.
AppendOnlyButOutcome ==
    [][/\ Len(sheet') >= Len(sheet)
       /\ \A k \in DOMAIN sheet :
             /\ DOMAIN sheet'[k] = DOMAIN sheet[k]
             /\ \A f \in DOMAIN sheet[k] \ {"Outcome"} : sheet'[k][f] = sheet[k][f]
             /\ sheet'[k].Outcome # sheet[k].Outcome
                   => /\ SweepStep
                      /\ uo'.kind = "written"
                      /\ k = idx - 1
                      /\ rows[k] = sheet[k]]_vars

\* the Outcome of the second row written while the first stays Pending
SecondRowWritten ==
    /\ uo.kind = "written"
    /\ uo.idx = 3
    /\ sheet[2].Outcome \in Resolved
    /\ sheet[1].Outcome = "Pending"
    /\ sheet[1].Pair = sheet[2].Pair

\* the rows e and f are events for the same gap: their unit, size and
\* direction agree
SameGap(e, f) ==
    /\ e.Pair = f.Pair
    /\ e.TF = f.TF
    /\ e.Gap = f.Gap
    /\ e.Direction = f.Direction

\* C17: every run that observes two candles at least MIN_GAP_PIPS pips
\* apart appends a Pending event of its own for them, whether or not the
\* sheet holds events for the same gap already, and none of those is
\* touched.
NoDeduplication ==
    [][CheckGapStep /\ QualifiesByPips(cg')
          => /\ Len(sheet') = Len(sheet) + 1
             /\ SubSeq(sheet', 1, Len(sheet)) = sheet
             /\ sheet'[Len(sheet')].Pair = PAIR_LIST[pi]
             /\ sheet'[Len(sheet')].TF = TF_KEYS[ti]
             /\ sheet'[Len(sheet')].Outcome = "Pending"]_vars

\* the same of the calls that passed the gap test of line 71
NoDeduplicationWhenPassed ==
    [][CheckGapStep /\ cg'.kind \notin {"nodata", "raised", "small"}
          => /\ Len(sheet') = Len(sheet) + 1
             /\ SubSeq(sheet', 1, Len(sheet)) = sheet
             /\ sheet'[Len(sheet')].Pair = PAIR_LIST[pi]
             /\ sheet'[Len(sheet')].TF = TF_KEYS[ti]
             /\ sheet'[Len(sheet')].Outcome = "Pending"]_vars

\* two events for the same gap, of which one is resolved and one is not
SameGapTwiceOneResolved ==
    /\ Len(sheet) >= 2
    /\ SameGap(sheet[1], sheet[2])
    /\ sheet[1].Outcome = "Pending"
    /\ sheet[2].Outcome \in Resolved

\* the row e is malformed: its Outcome is none the script writes, or its
\* Timestamp is no timestamp
Malformed(e) == e.Outcome \notin {"Pending"} \cup Resolved \/ e.Timestamp < 0

\* C18: the sweep passes a malformed stored row by: it leaves the sheet
\* as it is and goes on to the next row, or ends after the last one.
MalformedRowSkipped ==
    [][SweepStep /\ Malformed(rows[idx - 1])
          => /\ sheet' = sheet
             /\ idx' = idx + 1
             /\ pc' = IF idx - 1 < Len(rows) THEN "sweep" ELSE "done"]_vars

\* a row with an Outcome the script never writes passed by, and the sweep
\* at the row below it
UnexpectedOutcomePassedBy ==
    /\ uo.kind = "resolved"
    /\ ScannedRow.Outcome \notin {"Pending"} \cup Resolved
    /\ pc = "sweep"
    /\ idx = uo.idx + 1

\* the row k was appended in the run that is on, or was on last
AppendedThisRun(k) == k > run.len

\* the half seconds the run has lasted
RunLasted == now - run.at

\* a row is appended with Outcome Pending and the second of the clock for
\* its Timestamp
StampedPending ==
    CheckGapStep /\ sheet' # sheet
       => /\ sheet'[Len(sheet')].Outcome = "Pending"
          /\ 2 * sheet'[Len(sheet')].Timestamp <= now
          /\ now < 2 * sheet'[Len(sheet')].Timestamp + 2

\* C19 as stated: an event is appended Pending with the time of its
\* creation for its Timestamp, and the sweep of the run that appended it
\* leaves it Pending when that run lasts less than 6 hours.
NewEventPendingWithinSixHours ==
    [][/\ StampedPending
       /\ \A k \in DOMAIN sheet :
             AppendedThisRun(k) /\ RunLasted < 2 * 6 * 3600
                => sheet'[k].Outcome = "Pending"]_vars

\* C19: an event is appended Pending with the second of its creation for
\* its Timestamp, and the sweep of the run that appended it leaves it
\* Pending when that run lasts no more than 6 hours less 1 second; the
\* Timestamp drops the fraction of the second, so that the age the sweep
\* computes exceeds the time since the creation by up to a second.
NewEventPendingWithinRun ==
    [][/\ StampedPending
       /\ \A k \in DOMAIN sheet :
             AppendedThisRun(k) /\ RunLasted <= 2 * (6 * 3600 - 1)
                => sheet'[k].Outcome = "Pending"]_vars

\* the sweep of a run passed by, for its age, an event the run appended
NewEventPassedBy ==
    /\ uo.kind = "young"
    /\ AppendedThisRun(uo.idx - 1)
    /\ sheet[uo.idx - 1].Outcome = "Pending"
    /\ pc \in {"sweep", "done"}

=============================================================================
